---- MODULE Spec2Model ----
(***************************************************************************)
(* The Game Boy architecture plugin (class GB of src/__init__.py) as a     *)
(* state machine.  The host holds a byte window and an address and calls   *)
(* perform_get_instruction_info and perform_get_instruction_text on them;  *)
(* both are stateless, so the state is the window, the address, the last   *)
(* call made on them and what it gave back.                                *)
(*                                                                         *)
(* Python 2 semantics: data is a str, data[i] raises IndexError past the   *)
(* end, a slice past the end is short, struct.unpack raises struct.error   *)
(* on a buffer of the wrong size, and integers are unbounded.  A call      *)
(* gives back status "ok" with its values, status "None" (the function     *)
(* returned None), or the name of the exception that left it.              *)
(***************************************************************************)
EXTENDS Integers, Sequences, FiniteSets, TLC

VARIABLES call, data, addr, ret

vars == <<call, data, addr, ret>>

(* GB.max_instr_length: the host hands over at most this many bytes. *)
max_instr_length == 3

(* How far the sampled operand bytes reach around 0x00, 0x7f/0x80 and 0xff. *)
ByteSpread == 0

(* How far the sampled addresses reach around 0x0000 and 0xffff. *)
AddrSpread == 0

Byte == 0..255

ByteSamples ==
    (0..ByteSpread) \cup ((127 - ByteSpread)..(128 + ByteSpread))
        \cup ((255 - ByteSpread)..255) \cup {18, 52, 254}

Addrs == (0..AddrSpread) \cup {512} \cup ((65535 - AddrSpread)..65535)

(* The byte windows: the opcode byte is any byte, the operand bytes are    *)
(* sampled; the empty window is the host reading past the end.             *)
Windows ==
    {<<>>} \cup
    UNION {{<<op>> \o t : op \in Byte, t \in [1..n -> ByteSamples]} :
               n \in 0..(max_instr_length - 1)}

(* ------------------------------------------------------------------ *)
(* The opcode table, opcodes.json["unprefixed"], keyed as the file keys *)
(* it ("0x%x" of the opcode).  mnemonic and operand descriptors are     *)
(* kept as character sequences, so that the regular expressions and     *)
(* lower() of the code can be computed on them.  The prefix opcode 0xcb *)
(* and the eleven unassigned opcodes have no entry.                     *)
(* ------------------------------------------------------------------ *)
opcodes ==
    ("0x0" :> [mnemonic |-> <<"N","O","P">>, length |-> 1]) @@
    ("0x1" :> [mnemonic |-> <<"L","D">>, length |-> 3, operand1 |-> <<"B","C">>, operand2 |-> <<"d","1","6">>]) @@
    ("0x2" :> [mnemonic |-> <<"L","D">>, length |-> 1, operand1 |-> <<"(","B","C",")">>, operand2 |-> <<"A">>]) @@
    ("0x3" :> [mnemonic |-> <<"I","N","C">>, length |-> 1, operand1 |-> <<"B","C">>]) @@
    ("0x4" :> [mnemonic |-> <<"I","N","C">>, length |-> 1, operand1 |-> <<"B">>]) @@
    ("0x5" :> [mnemonic |-> <<"D","E","C">>, length |-> 1, operand1 |-> <<"B">>]) @@
    ("0x6" :> [mnemonic |-> <<"L","D">>, length |-> 2, operand1 |-> <<"B">>, operand2 |-> <<"d","8">>]) @@
    ("0x7" :> [mnemonic |-> <<"R","L","C","A">>, length |-> 1]) @@
    ("0x8" :> [mnemonic |-> <<"L","D">>, length |-> 3, operand1 |-> <<"(","a","1","6",")">>, operand2 |-> <<"S","P">>]) @@
    ("0x9" :> [mnemonic |-> <<"A","D","D">>, length |-> 1, operand1 |-> <<"H","L">>, operand2 |-> <<"B","C">>]) @@
    ("0xa" :> [mnemonic |-> <<"L","D">>, length |-> 1, operand1 |-> <<"A">>, operand2 |-> <<"(","B","C",")">>]) @@
    ("0xb" :> [mnemonic |-> <<"D","E","C">>, length |-> 1, operand1 |-> <<"B","C">>]) @@
    ("0xc" :> [mnemonic |-> <<"I","N","C">>, length |-> 1, operand1 |-> <<"C">>]) @@
    ("0xd" :> [mnemonic |-> <<"D","E","C">>, length |-> 1, operand1 |-> <<"C">>]) @@
    ("0xe" :> [mnemonic |-> <<"L","D">>, length |-> 2, operand1 |-> <<"C">>, operand2 |-> <<"d","8">>]) @@
    ("0xf" :> [mnemonic |-> <<"R","R","C","A">>, length |-> 1]) @@
    ("0x10" :> [mnemonic |-> <<"S","T","O","P">>, length |-> 2, operand1 |-> <<"0">>]) @@
    ("0x11" :> [mnemonic |-> <<"L","D">>, length |-> 3, operand1 |-> <<"D","E">>, operand2 |-> <<"d","1","6">>]) @@
    ("0x12" :> [mnemonic |-> <<"L","D">>, length |-> 1, operand1 |-> <<"(","D","E",")">>, operand2 |-> <<"A">>]) @@
    ("0x13" :> [mnemonic |-> <<"I","N","C">>, length |-> 1, operand1 |-> <<"D","E">>]) @@
    ("0x14" :> [mnemonic |-> <<"I","N","C">>, length |-> 1, operand1 |-> <<"D">>]) @@
    ("0x15" :> [mnemonic |-> <<"D","E","C">>, length |-> 1, operand1 |-> <<"D">>]) @@
    ("0x16" :> [mnemonic |-> <<"L","D">>, length |-> 2, operand1 |-> <<"D">>, operand2 |-> <<"d","8">>]) @@
    ("0x17" :> [mnemonic |-> <<"R","L","A">>, length |-> 1]) @@
    ("0x18" :> [mnemonic |-> <<"J","R">>, length |-> 2, operand1 |-> <<"r","8">>]) @@
    ("0x19" :> [mnemonic |-> <<"A","D","D">>, length |-> 1, operand1 |-> <<"H","L">>, operand2 |-> <<"D","E">>]) @@
    ("0x1a" :> [mnemonic |-> <<"L","D">>, length |-> 1, operand1 |-> <<"A">>, operand2 |-> <<"(","D","E",")">>]) @@
    ("0x1b" :> [mnemonic |-> <<"D","E","C">>, length |-> 1, operand1 |-> <<"D","E">>]) @@
    ("0x1c" :> [mnemonic |-> <<"I","N","C">>, length |-> 1, operand1 |-> <<"E">>]) @@
    ("0x1d" :> [mnemonic |-> <<"D","E","C">>, length |-> 1, operand1 |-> <<"E">>]) @@
    ("0x1e" :> [mnemonic |-> <<"L","D">>, length |-> 2, operand1 |-> <<"E">>, operand2 |-> <<"d","8">>]) @@
    ("0x1f" :> [mnemonic |-> <<"R","R","A">>, length |-> 1]) @@
    ("0x20" :> [mnemonic |-> <<"J","R">>, length |-> 2, operand1 |-> <<"N","Z">>, operand2 |-> <<"r","8">>]) @@
    ("0x21" :> [mnemonic |-> <<"L","D">>, length |-> 3, operand1 |-> <<"H","L">>, operand2 |-> <<"d","1","6">>]) @@
    ("0x22" :> [mnemonic |-> <<"L","D">>, length |-> 1, operand1 |-> <<"(","H","L","+",")">>, operand2 |-> <<"A">>]) @@
    ("0x23" :> [mnemonic |-> <<"I","N","C">>, length |-> 1, operand1 |-> <<"H","L">>]) @@
    ("0x24" :> [mnemonic |-> <<"I","N","C">>, length |-> 1, operand1 |-> <<"H">>]) @@
    ("0x25" :> [mnemonic |-> <<"D","E","C">>, length |-> 1, operand1 |-> <<"H">>]) @@
    ("0x26" :> [mnemonic |-> <<"L","D">>, length |-> 2, operand1 |-> <<"H">>, operand2 |-> <<"d","8">>]) @@
    ("0x27" :> [mnemonic |-> <<"D","A","A">>, length |-> 1]) @@
    ("0x28" :> [mnemonic |-> <<"J","R">>, length |-> 2, operand1 |-> <<"Z">>, operand2 |-> <<"r","8">>]) @@
    ("0x29" :> [mnemonic |-> <<"A","D","D">>, length |-> 1, operand1 |-> <<"H","L">>, operand2 |-> <<"H","L">>]) @@
    ("0x2a" :> [mnemonic |-> <<"L","D">>, length |-> 1, operand1 |-> <<"A">>, operand2 |-> <<"(","H","L","+",")">>]) @@
    ("0x2b" :> [mnemonic |-> <<"D","E","C">>, length |-> 1, operand1 |-> <<"H","L">>]) @@
    ("0x2c" :> [mnemonic |-> <<"I","N","C">>, length |-> 1, operand1 |-> <<"L">>]) @@
    ("0x2d" :> [mnemonic |-> <<"D","E","C">>, length |-> 1, operand1 |-> <<"L">>]) @@
    ("0x2e" :> [mnemonic |-> <<"L","D">>, length |-> 2, operand1 |-> <<"L">>, operand2 |-> <<"d","8">>]) @@
    ("0x2f" :> [mnemonic |-> <<"C","P","L">>, length |-> 1]) @@
    ("0x30" :> [mnemonic |-> <<"J","R">>, length |-> 2, operand1 |-> <<"N","C">>, operand2 |-> <<"r","8">>]) @@
    ("0x31" :> [mnemonic |-> <<"L","D">>, length |-> 3, operand1 |-> <<"S","P">>, operand2 |-> <<"d","1","6">>]) @@
    ("0x32" :> [mnemonic |-> <<"L","D">>, length |-> 1, operand1 |-> <<"(","H","L","-",")">>, operand2 |-> <<"A">>]) @@
    ("0x33" :> [mnemonic |-> <<"I","N","C">>, length |-> 1, operand1 |-> <<"S","P">>]) @@
    ("0x34" :> [mnemonic |-> <<"I","N","C">>, length |-> 1, operand1 |-> <<"(","H","L",")">>]) @@
    ("0x35" :> [mnemonic |-> <<"D","E","C">>, length |-> 1, operand1 |-> <<"(","H","L",")">>]) @@
    ("0x36" :> [mnemonic |-> <<"L","D">>, length |-> 2, operand1 |-> <<"(","H","L",")">>, operand2 |-> <<"d","8">>]) @@
    ("0x37" :> [mnemonic |-> <<"S","C","F">>, length |-> 1]) @@
    ("0x38" :> [mnemonic |-> <<"J","R">>, length |-> 2, operand1 |-> <<"C">>, operand2 |-> <<"r","8">>]) @@
    ("0x39" :> [mnemonic |-> <<"A","D","D">>, length |-> 1, operand1 |-> <<"H","L">>, operand2 |-> <<"S","P">>]) @@
    ("0x3a" :> [mnemonic |-> <<"L","D">>, length |-> 1, operand1 |-> <<"A">>, operand2 |-> <<"(","H","L","-",")">>]) @@
    ("0x3b" :> [mnemonic |-> <<"D","E","C">>, length |-> 1, operand1 |-> <<"S","P">>]) @@
    ("0x3c" :> [mnemonic |-> <<"I","N","C">>, length |-> 1, operand1 |-> <<"A">>]) @@
    ("0x3d" :> [mnemonic |-> <<"D","E","C">>, length |-> 1, operand1 |-> <<"A">>]) @@
    ("0x3e" :> [mnemonic |-> <<"L","D">>, length |-> 2, operand1 |-> <<"A">>, operand2 |-> <<"d","8">>]) @@
    ("0x3f" :> [mnemonic |-> <<"C","C","F">>, length |-> 1]) @@
    ("0x40" :> [mnemonic |-> <<"L","D">>, length |-> 1, operand1 |-> <<"B">>, operand2 |-> <<"B">>]) @@
    ("0x41" :> [mnemonic |-> <<"L","D">>, length |-> 1, operand1 |-> <<"B">>, operand2 |-> <<"C">>]) @@
    ("0x42" :> [mnemonic |-> <<"L","D">>, length |-> 1, operand1 |-> <<"B">>, operand2 |-> <<"D">>]) @@
    ("0x43" :> [mnemonic |-> <<"L","D">>, length |-> 1, operand1 |-> <<"B">>, operand2 |-> <<"E">>]) @@
    ("0x44" :> [mnemonic |-> <<"L","D">>, length |-> 1, operand1 |-> <<"B">>, operand2 |-> <<"H">>]) @@
    ("0x45" :> [mnemonic |-> <<"L","D">>, length |-> 1, operand1 |-> <<"B">>, operand2 |-> <<"L">>]) @@
    ("0x46" :> [mnemonic |-> <<"L","D">>, length |-> 1, operand1 |-> <<"B">>, operand2 |-> <<"(","H","L",")">>]) @@
    ("0x47" :> [mnemonic |-> <<"L","D">>, length |-> 1, operand1 |-> <<"B">>, operand2 |-> <<"A">>]) @@
    ("0x48" :> [mnemonic |-> <<"L","D">>, length |-> 1, operand1 |-> <<"C">>, operand2 |-> <<"B">>]) @@
    ("0x49" :> [mnemonic |-> <<"L","D">>, length |-> 1, operand1 |-> <<"C">>, operand2 |-> <<"C">>]) @@
    ("0x4a" :> [mnemonic |-> <<"L","D">>, length |-> 1, operand1 |-> <<"C">>, operand2 |-> <<"D">>]) @@
    ("0x4b" :> [mnemonic |-> <<"L","D">>, length |-> 1, operand1 |-> <<"C">>, operand2 |-> <<"E">>]) @@
    ("0x4c" :> [mnemonic |-> <<"L","D">>, length |-> 1, operand1 |-> <<"C">>, operand2 |-> <<"H">>]) @@
    ("0x4d" :> [mnemonic |-> <<"L","D">>, length |-> 1, operand1 |-> <<"C">>, operand2 |-> <<"L">>]) @@
    ("0x4e" :> [mnemonic |-> <<"L","D">>, length |-> 1, operand1 |-> <<"C">>, operand2 |-> <<"(","H","L",")">>]) @@
    ("0x4f" :> [mnemonic |-> <<"L","D">>, length |-> 1, operand1 |-> <<"C">>, operand2 |-> <<"A">>]) @@
    ("0x50" :> [mnemonic |-> <<"L","D">>, length |-> 1, operand1 |-> <<"D">>, operand2 |-> <<"B">>]) @@
    ("0x51" :> [mnemonic |-> <<"L","D">>, length |-> 1, operand1 |-> <<"D">>, operand2 |-> <<"C">>]) @@
    ("0x52" :> [mnemonic |-> <<"L","D">>, length |-> 1, operand1 |-> <<"D">>, operand2 |-> <<"D">>]) @@
    ("0x53" :> [mnemonic |-> <<"L","D">>, length |-> 1, operand1 |-> <<"D">>, operand2 |-> <<"E">>]) @@
    ("0x54" :> [mnemonic |-> <<"L","D">>, length |-> 1, operand1 |-> <<"D">>, operand2 |-> <<"H">>]) @@
    ("0x55" :> [mnemonic |-> <<"L","D">>, length |-> 1, operand1 |-> <<"D">>, operand2 |-> <<"L">>]) @@
    ("0x56" :> [mnemonic |-> <<"L","D">>, length |-> 1, operand1 |-> <<"D">>, operand2 |-> <<"(","H","L",")">>]) @@
    ("0x57" :> [mnemonic |-> <<"L","D">>, length |-> 1, operand1 |-> <<"D">>, operand2 |-> <<"A">>]) @@
    ("0x58" :> [mnemonic |-> <<"L","D">>, length |-> 1, operand1 |-> <<"E">>, operand2 |-> <<"B">>]) @@
    ("0x59" :> [mnemonic |-> <<"L","D">>, length |-> 1, operand1 |-> <<"E">>, operand2 |-> <<"C">>]) @@
    ("0x5a" :> [mnemonic |-> <<"L","D">>, length |-> 1, operand1 |-> <<"E">>, operand2 |-> <<"D">>]) @@
    ("0x5b" :> [mnemonic |-> <<"L","D">>, length |-> 1, operand1 |-> <<"E">>, operand2 |-> <<"E">>]) @@
    ("0x5c" :> [mnemonic |-> <<"L","D">>, length |-> 1, operand1 |-> <<"E">>, operand2 |-> <<"H">>]) @@
    ("0x5d" :> [mnemonic |-> <<"L","D">>, length |-> 1, operand1 |-> <<"E">>, operand2 |-> <<"L">>]) @@
    ("0x5e" :> [mnemonic |-> <<"L","D">>, length |-> 1, operand1 |-> <<"E">>, operand2 |-> <<"(","H","L",")">>]) @@
    ("0x5f" :> [mnemonic |-> <<"L","D">>, length |-> 1, operand1 |-> <<"E">>, operand2 |-> <<"A">>]) @@
    ("0x60" :> [mnemonic |-> <<"L","D">>, length |-> 1, operand1 |-> <<"H">>, operand2 |-> <<"B">>]) @@
    ("0x61" :> [mnemonic |-> <<"L","D">>, length |-> 1, operand1 |-> <<"H">>, operand2 |-> <<"C">>]) @@
    ("0x62" :> [mnemonic |-> <<"L","D">>, length |-> 1, operand1 |-> <<"H">>, operand2 |-> <<"D">>]) @@
    ("0x63" :> [mnemonic |-> <<"L","D">>, length |-> 1, operand1 |-> <<"H">>, operand2 |-> <<"E">>]) @@
    ("0x64" :> [mnemonic |-> <<"L","D">>, length |-> 1, operand1 |-> <<"H">>, operand2 |-> <<"H">>]) @@
    ("0x65" :> [mnemonic |-> <<"L","D">>, length |-> 1, operand1 |-> <<"H">>, operand2 |-> <<"L">>]) @@
    ("0x66" :> [mnemonic |-> <<"L","D">>, length |-> 1, operand1 |-> <<"H">>, operand2 |-> <<"(","H","L",")">>]) @@
    ("0x67" :> [mnemonic |-> <<"L","D">>, length |-> 1, operand1 |-> <<"H">>, operand2 |-> <<"A">>]) @@
    ("0x68" :> [mnemonic |-> <<"L","D">>, length |-> 1, operand1 |-> <<"L">>, operand2 |-> <<"B">>]) @@
    ("0x69" :> [mnemonic |-> <<"L","D">>, length |-> 1, operand1 |-> <<"L">>, operand2 |-> <<"C">>]) @@
    ("0x6a" :> [mnemonic |-> <<"L","D">>, length |-> 1, operand1 |-> <<"L">>, operand2 |-> <<"D">>]) @@
    ("0x6b" :> [mnemonic |-> <<"L","D">>, length |-> 1, operand1 |-> <<"L">>, operand2 |-> <<"E">>]) @@
    ("0x6c" :> [mnemonic |-> <<"L","D">>, length |-> 1, operand1 |-> <<"L">>, operand2 |-> <<"H">>]) @@
    ("0x6d" :> [mnemonic |-> <<"L","D">>, length |-> 1, operand1 |-> <<"L">>, operand2 |-> <<"L">>]) @@
    ("0x6e" :> [mnemonic |-> <<"L","D">>, length |-> 1, operand1 |-> <<"L">>, operand2 |-> <<"(","H","L",")">>]) @@
    ("0x6f" :> [mnemonic |-> <<"L","D">>, length |-> 1, operand1 |-> <<"L">>, operand2 |-> <<"A">>]) @@
    ("0x70" :> [mnemonic |-> <<"L","D">>, length |-> 1, operand1 |-> <<"(","H","L",")">>, operand2 |-> <<"B">>]) @@
    ("0x71" :> [mnemonic |-> <<"L","D">>, length |-> 1, operand1 |-> <<"(","H","L",")">>, operand2 |-> <<"C">>]) @@
    ("0x72" :> [mnemonic |-> <<"L","D">>, length |-> 1, operand1 |-> <<"(","H","L",")">>, operand2 |-> <<"D">>]) @@
    ("0x73" :> [mnemonic |-> <<"L","D">>, length |-> 1, operand1 |-> <<"(","H","L",")">>, operand2 |-> <<"E">>]) @@
    ("0x74" :> [mnemonic |-> <<"L","D">>, length |-> 1, operand1 |-> <<"(","H","L",")">>, operand2 |-> <<"H">>]) @@
    ("0x75" :> [mnemonic |-> <<"L","D">>, length |-> 1, operand1 |-> <<"(","H","L",")">>, operand2 |-> <<"L">>]) @@
    ("0x76" :> [mnemonic |-> <<"H","A","L","T">>, length |-> 1]) @@
    ("0x77" :> [mnemonic |-> <<"L","D">>, length |-> 1, operand1 |-> <<"(","H","L",")">>, operand2 |-> <<"A">>]) @@
    ("0x78" :> [mnemonic |-> <<"L","D">>, length |-> 1, operand1 |-> <<"A">>, operand2 |-> <<"B">>]) @@
    ("0x79" :> [mnemonic |-> <<"L","D">>, length |-> 1, operand1 |-> <<"A">>, operand2 |-> <<"C">>]) @@
    ("0x7a" :> [mnemonic |-> <<"L","D">>, length |-> 1, operand1 |-> <<"A">>, operand2 |-> <<"D">>]) @@
    ("0x7b" :> [mnemonic |-> <<"L","D">>, length |-> 1, operand1 |-> <<"A">>, operand2 |-> <<"E">>]) @@
    ("0x7c" :> [mnemonic |-> <<"L","D">>, length |-> 1, operand1 |-> <<"A">>, operand2 |-> <<"H">>]) @@
    ("0x7d" :> [mnemonic |-> <<"L","D">>, length |-> 1, operand1 |-> <<"A">>, operand2 |-> <<"L">>]) @@
    ("0x7e" :> [mnemonic |-> <<"L","D">>, length |-> 1, operand1 |-> <<"A">>, operand2 |-> <<"(","H","L",")">>]) @@
    ("0x7f" :> [mnemonic |-> <<"L","D">>, length |-> 1, operand1 |-> <<"A">>, operand2 |-> <<"A">>]) @@
    ("0x80" :> [mnemonic |-> <<"A","D","D">>, length |-> 1, operand1 |-> <<"A">>, operand2 |-> <<"B">>]) @@
    ("0x81" :> [mnemonic |-> <<"A","D","D">>, length |-> 1, operand1 |-> <<"A">>, operand2 |-> <<"C">>]) @@
    ("0x82" :> [mnemonic |-> <<"A","D","D">>, length |-> 1, operand1 |-> <<"A">>, operand2 |-> <<"D">>]) @@
    ("0x83" :> [mnemonic |-> <<"A","D","D">>, length |-> 1, operand1 |-> <<"A">>, operand2 |-> <<"E">>]) @@
    ("0x84" :> [mnemonic |-> <<"A","D","D">>, length |-> 1, operand1 |-> <<"A">>, operand2 |-> <<"H">>]) @@
    ("0x85" :> [mnemonic |-> <<"A","D","D">>, length |-> 1, operand1 |-> <<"A">>, operand2 |-> <<"L">>]) @@
    ("0x86" :> [mnemonic |-> <<"A","D","D">>, length |-> 1, operand1 |-> <<"A">>, operand2 |-> <<"(","H","L",")">>]) @@
    ("0x87" :> [mnemonic |-> <<"A","D","D">>, length |-> 1, operand1 |-> <<"A">>, operand2 |-> <<"A">>]) @@
    ("0x88" :> [mnemonic |-> <<"A","D","C">>, length |-> 1, operand1 |-> <<"A">>, operand2 |-> <<"B">>]) @@
    ("0x89" :> [mnemonic |-> <<"A","D","C">>, length |-> 1, operand1 |-> <<"A">>, operand2 |-> <<"C">>]) @@
    ("0x8a" :> [mnemonic |-> <<"A","D","C">>, length |-> 1, operand1 |-> <<"A">>, operand2 |-> <<"D">>]) @@
    ("0x8b" :> [mnemonic |-> <<"A","D","C">>, length |-> 1, operand1 |-> <<"A">>, operand2 |-> <<"E">>]) @@
    ("0x8c" :> [mnemonic |-> <<"A","D","C">>, length |-> 1, operand1 |-> <<"A">>, operand2 |-> <<"H">>]) @@
    ("0x8d" :> [mnemonic |-> <<"A","D","C">>, length |-> 1, operand1 |-> <<"A">>, operand2 |-> <<"L">>]) @@
    ("0x8e" :> [mnemonic |-> <<"A","D","C">>, length |-> 1, operand1 |-> <<"A">>, operand2 |-> <<"(","H","L",")">>]) @@
    ("0x8f" :> [mnemonic |-> <<"A","D","C">>, length |-> 1, operand1 |-> <<"A">>, operand2 |-> <<"A">>]) @@
    ("0x90" :> [mnemonic |-> <<"S","U","B">>, length |-> 1, operand1 |-> <<"B">>]) @@
    ("0x91" :> [mnemonic |-> <<"S","U","B">>, length |-> 1, operand1 |-> <<"C">>]) @@
    ("0x92" :> [mnemonic |-> <<"S","U","B">>, length |-> 1, operand1 |-> <<"D">>]) @@
    ("0x93" :> [mnemonic |-> <<"S","U","B">>, length |-> 1, operand1 |-> <<"E">>]) @@
    ("0x94" :> [mnemonic |-> <<"S","U","B">>, length |-> 1, operand1 |-> <<"H">>]) @@
    ("0x95" :> [mnemonic |-> <<"S","U","B">>, length |-> 1, operand1 |-> <<"L">>]) @@
    ("0x96" :> [mnemonic |-> <<"S","U","B">>, length |-> 1, operand1 |-> <<"(","H","L",")">>]) @@
    ("0x97" :> [mnemonic |-> <<"S","U","B">>, length |-> 1, operand1 |-> <<"A">>]) @@
    ("0x98" :> [mnemonic |-> <<"S","B","C">>, length |-> 1, operand1 |-> <<"A">>, operand2 |-> <<"B">>]) @@
    ("0x99" :> [mnemonic |-> <<"S","B","C">>, length |-> 1, operand1 |-> <<"A">>, operand2 |-> <<"C">>]) @@
    ("0x9a" :> [mnemonic |-> <<"S","B","C">>, length |-> 1, operand1 |-> <<"A">>, operand2 |-> <<"D">>]) @@
    ("0x9b" :> [mnemonic |-> <<"S","B","C">>, length |-> 1, operand1 |-> <<"A">>, operand2 |-> <<"E">>]) @@
    ("0x9c" :> [mnemonic |-> <<"S","B","C">>, length |-> 1, operand1 |-> <<"A">>, operand2 |-> <<"H">>]) @@
    ("0x9d" :> [mnemonic |-> <<"S","B","C">>, length |-> 1, operand1 |-> <<"A">>, operand2 |-> <<"L">>]) @@
    ("0x9e" :> [mnemonic |-> <<"S","B","C">>, length |-> 1, operand1 |-> <<"A">>, operand2 |-> <<"(","H","L",")">>]) @@
    ("0x9f" :> [mnemonic |-> <<"S","B","C">>, length |-> 1, operand1 |-> <<"A">>, operand2 |-> <<"A">>]) @@
    ("0xa0" :> [mnemonic |-> <<"A","N","D">>, length |-> 1, operand1 |-> <<"B">>]) @@
    ("0xa1" :> [mnemonic |-> <<"A","N","D">>, length |-> 1, operand1 |-> <<"C">>]) @@
    ("0xa2" :> [mnemonic |-> <<"A","N","D">>, length |-> 1, operand1 |-> <<"D">>]) @@
    ("0xa3" :> [mnemonic |-> <<"A","N","D">>, length |-> 1, operand1 |-> <<"E">>]) @@
    ("0xa4" :> [mnemonic |-> <<"A","N","D">>, length |-> 1, operand1 |-> <<"H">>]) @@
    ("0xa5" :> [mnemonic |-> <<"A","N","D">>, length |-> 1, operand1 |-> <<"L">>]) @@
    ("0xa6" :> [mnemonic |-> <<"A","N","D">>, length |-> 1, operand1 |-> <<"(","H","L",")">>]) @@
    ("0xa7" :> [mnemonic |-> <<"A","N","D">>, length |-> 1, operand1 |-> <<"A">>]) @@
    ("0xa8" :> [mnemonic |-> <<"X","O","R">>, length |-> 1, operand1 |-> <<"B">>]) @@
    ("0xa9" :> [mnemonic |-> <<"X","O","R">>, length |-> 1, operand1 |-> <<"C">>]) @@
    ("0xaa" :> [mnemonic |-> <<"X","O","R">>, length |-> 1, operand1 |-> <<"D">>]) @@
    ("0xab" :> [mnemonic |-> <<"X","O","R">>, length |-> 1, operand1 |-> <<"E">>]) @@
    ("0xac" :> [mnemonic |-> <<"X","O","R">>, length |-> 1, operand1 |-> <<"H">>]) @@
    ("0xad" :> [mnemonic |-> <<"X","O","R">>, length |-> 1, operand1 |-> <<"L">>]) @@
    ("0xae" :> [mnemonic |-> <<"X","O","R">>, length |-> 1, operand1 |-> <<"(","H","L",")">>]) @@
    ("0xaf" :> [mnemonic |-> <<"X","O","R">>, length |-> 1, operand1 |-> <<"A">>]) @@
    ("0xb0" :> [mnemonic |-> <<"O","R">>, length |-> 1, operand1 |-> <<"B">>]) @@
    ("0xb1" :> [mnemonic |-> <<"O","R">>, length |-> 1, operand1 |-> <<"C">>]) @@
    ("0xb2" :> [mnemonic |-> <<"O","R">>, length |-> 1, operand1 |-> <<"D">>]) @@
    ("0xb3" :> [mnemonic |-> <<"O","R">>, length |-> 1, operand1 |-> <<"E">>]) @@
    ("0xb4" :> [mnemonic |-> <<"O","R">>, length |-> 1, operand1 |-> <<"H">>]) @@
    ("0xb5" :> [mnemonic |-> <<"O","R">>, length |-> 1, operand1 |-> <<"L">>]) @@
    ("0xb6" :> [mnemonic |-> <<"O","R">>, length |-> 1, operand1 |-> <<"(","H","L",")">>]) @@
    ("0xb7" :> [mnemonic |-> <<"O","R">>, length |-> 1, operand1 |-> <<"A">>]) @@
    ("0xb8" :> [mnemonic |-> <<"C","P">>, length |-> 1, operand1 |-> <<"B">>]) @@
    ("0xb9" :> [mnemonic |-> <<"C","P">>, length |-> 1, operand1 |-> <<"C">>]) @@
    ("0xba" :> [mnemonic |-> <<"C","P">>, length |-> 1, operand1 |-> <<"D">>]) @@
    ("0xbb" :> [mnemonic |-> <<"C","P">>, length |-> 1, operand1 |-> <<"E">>]) @@
    ("0xbc" :> [mnemonic |-> <<"C","P">>, length |-> 1, operand1 |-> <<"H">>]) @@
    ("0xbd" :> [mnemonic |-> <<"C","P">>, length |-> 1, operand1 |-> <<"L">>]) @@
    ("0xbe" :> [mnemonic |-> <<"C","P">>, length |-> 1, operand1 |-> <<"(","H","L",")">>]) @@
    ("0xbf" :> [mnemonic |-> <<"C","P">>, length |-> 1, operand1 |-> <<"A">>]) @@
    ("0xc0" :> [mnemonic |-> <<"R","E","T">>, length |-> 1, operand1 |-> <<"N","Z">>]) @@
    ("0xc1" :> [mnemonic |-> <<"P","O","P">>, length |-> 1, operand1 |-> <<"B","C">>]) @@
    ("0xc2" :> [mnemonic |-> <<"J","P">>, length |-> 3, operand1 |-> <<"N","Z">>, operand2 |-> <<"a","1","6">>]) @@
    ("0xc3" :> [mnemonic |-> <<"J","P">>, length |-> 3, operand1 |-> <<"a","1","6">>]) @@
    ("0xc4" :> [mnemonic |-> <<"C","A","L","L">>, length |-> 3, operand1 |-> <<"N","Z">>, operand2 |-> <<"a","1","6">>]) @@
    ("0xc5" :> [mnemonic |-> <<"P","U","S","H">>, length |-> 1, operand1 |-> <<"B","C">>]) @@
    ("0xc6" :> [mnemonic |-> <<"A","D","D">>, length |-> 2, operand1 |-> <<"A">>, operand2 |-> <<"d","8">>]) @@
    ("0xc7" :> [mnemonic |-> <<"R","S","T">>, length |-> 1, operand1 |-> <<"0","0","H">>]) @@
    ("0xc8" :> [mnemonic |-> <<"R","E","T">>, length |-> 1, operand1 |-> <<"Z">>]) @@
    ("0xc9" :> [mnemonic |-> <<"R","E","T">>, length |-> 1]) @@
    ("0xca" :> [mnemonic |-> <<"J","P">>, length |-> 3, operand1 |-> <<"Z">>, operand2 |-> <<"a","1","6">>]) @@
    ("0xcc" :> [mnemonic |-> <<"C","A","L","L">>, length |-> 3, operand1 |-> <<"Z">>, operand2 |-> <<"a","1","6">>]) @@
    ("0xcd" :> [mnemonic |-> <<"C","A","L","L">>, length |-> 3, operand1 |-> <<"a","1","6">>]) @@
    ("0xce" :> [mnemonic |-> <<"A","D","C">>, length |-> 2, operand1 |-> <<"A">>, operand2 |-> <<"d","8">>]) @@
    ("0xcf" :> [mnemonic |-> <<"R","S","T">>, length |-> 1, operand1 |-> <<"0","8","H">>]) @@
    ("0xd0" :> [mnemonic |-> <<"R","E","T">>, length |-> 1, operand1 |-> <<"N","C">>]) @@
    ("0xd1" :> [mnemonic |-> <<"P","O","P">>, length |-> 1, operand1 |-> <<"D","E">>]) @@
    ("0xd2" :> [mnemonic |-> <<"J","P">>, length |-> 3, operand1 |-> <<"N","C">>, operand2 |-> <<"a","1","6">>]) @@
    ("0xd4" :> [mnemonic |-> <<"C","A","L","L">>, length |-> 3, operand1 |-> <<"N","C">>, operand2 |-> <<"a","1","6">>]) @@
    ("0xd5" :> [mnemonic |-> <<"P","U","S","H">>, length |-> 1, operand1 |-> <<"D","E">>]) @@
    ("0xd6" :> [mnemonic |-> <<"S","U","B">>, length |-> 2, operand1 |-> <<"d","8">>]) @@
    ("0xd7" :> [mnemonic |-> <<"R","S","T">>, length |-> 1, operand1 |-> <<"1","0","H">>]) @@
    ("0xd8" :> [mnemonic |-> <<"R","E","T">>, length |-> 1, operand1 |-> <<"C">>]) @@
    ("0xd9" :> [mnemonic |-> <<"R","E","T","I">>, length |-> 1]) @@
    ("0xda" :> [mnemonic |-> <<"J","P">>, length |-> 3, operand1 |-> <<"C">>, operand2 |-> <<"a","1","6">>]) @@
    ("0xdc" :> [mnemonic |-> <<"C","A","L","L">>, length |-> 3, operand1 |-> <<"C">>, operand2 |-> <<"a","1","6">>]) @@
    ("0xde" :> [mnemonic |-> <<"S","B","C">>, length |-> 2, operand1 |-> <<"A">>, operand2 |-> <<"d","8">>]) @@
    ("0xdf" :> [mnemonic |-> <<"R","S","T">>, length |-> 1, operand1 |-> <<"1","8","H">>]) @@
    ("0xe0" :> [mnemonic |-> <<"L","D","H">>, length |-> 2, operand1 |-> <<"(","a","8",")">>, operand2 |-> <<"A">>]) @@
    ("0xe1" :> [mnemonic |-> <<"P","O","P">>, length |-> 1, operand1 |-> <<"H","L">>]) @@
    ("0xe2" :> [mnemonic |-> <<"L","D">>, length |-> 2, operand1 |-> <<"(","C",")">>, operand2 |-> <<"A">>]) @@
    ("0xe5" :> [mnemonic |-> <<"P","U","S","H">>, length |-> 1, operand1 |-> <<"H","L">>]) @@
    ("0xe6" :> [mnemonic |-> <<"A","N","D">>, length |-> 2, operand1 |-> <<"d","8">>]) @@
    ("0xe7" :> [mnemonic |-> <<"R","S","T">>, length |-> 1, operand1 |-> <<"2","0","H">>]) @@
    ("0xe8" :> [mnemonic |-> <<"A","D","D">>, length |-> 2, operand1 |-> <<"S","P">>, operand2 |-> <<"r","8">>]) @@
    ("0xe9" :> [mnemonic |-> <<"J","P">>, length |-> 1, operand1 |-> <<"(","H","L",")">>]) @@
    ("0xea" :> [mnemonic |-> <<"L","D">>, length |-> 3, operand1 |-> <<"(","a","1","6",")">>, operand2 |-> <<"A">>]) @@
    ("0xee" :> [mnemonic |-> <<"X","O","R">>, length |-> 2, operand1 |-> <<"d","8">>]) @@
    ("0xef" :> [mnemonic |-> <<"R","S","T">>, length |-> 1, operand1 |-> <<"2","8","H">>]) @@
    ("0xf0" :> [mnemonic |-> <<"L","D","H">>, length |-> 2, operand1 |-> <<"A">>, operand2 |-> <<"(","a","8",")">>]) @@
    ("0xf1" :> [mnemonic |-> <<"P","O","P">>, length |-> 1, operand1 |-> <<"A","F">>]) @@
    ("0xf2" :> [mnemonic |-> <<"L","D">>, length |-> 2, operand1 |-> <<"A">>, operand2 |-> <<"(","C",")">>]) @@
    ("0xf3" :> [mnemonic |-> <<"D","I">>, length |-> 1]) @@
    ("0xf5" :> [mnemonic |-> <<"P","U","S","H">>, length |-> 1, operand1 |-> <<"A","F">>]) @@
    ("0xf6" :> [mnemonic |-> <<"O","R">>, length |-> 2, operand1 |-> <<"d","8">>]) @@
    ("0xf7" :> [mnemonic |-> <<"R","S","T">>, length |-> 1, operand1 |-> <<"3","0","H">>]) @@
    ("0xf8" :> [mnemonic |-> <<"L","D">>, length |-> 2, operand1 |-> <<"H","L">>, operand2 |-> <<"S","P","+","r","8">>]) @@
    ("0xf9" :> [mnemonic |-> <<"L","D">>, length |-> 1, operand1 |-> <<"S","P">>, operand2 |-> <<"H","L">>]) @@
    ("0xfa" :> [mnemonic |-> <<"L","D">>, length |-> 3, operand1 |-> <<"A">>, operand2 |-> <<"(","a","1","6",")">>]) @@
    ("0xfb" :> [mnemonic |-> <<"E","I">>, length |-> 1]) @@
    ("0xfe" :> [mnemonic |-> <<"C","P">>, length |-> 2, operand1 |-> <<"d","8">>]) @@
    ("0xff" :> [mnemonic |-> <<"R","S","T">>, length |-> 1, operand1 |-> <<"3","8","H">>])

(* ------------------------------------------------------------------ *)
(* Formatting and unpacking                                             *)
(* ------------------------------------------------------------------ *)
HexChar(n) ==
    <<"0","1","2","3","4","5","6","7","8","9","a","b","c","d","e","f">>[n + 1]

RECURSIVE HexStr(_)
(* "%x" % n, n >= 0 *)
HexStr(n) == IF n < 16 THEN HexChar(n) ELSE HexStr(n \div 16) \o HexChar(n % 16)

RECURSIVE ZeroPad(_, _)
ZeroPad(s, w) == IF Len(s) >= w THEN s ELSE ZeroPad("0" \o s, w)

(* "0x%x" % opcode *)
FormatKey(opcode) == "0x" \o HexStr(opcode)

(* "0x%.2x" % value *)
Format2x(value) == "0x" \o ZeroPad(HexStr(value), 2)

(* "0x%.4x" % value *)
Format4x(value) == "0x" \o ZeroPad(HexStr(value), 4)

(* struct.unpack('<B', s)[0]: s must be exactly one byte *)
unpack_B_ok(s) == Len(s) = 1
unpack_B(s) == s[1]

(* struct.unpack('<H', s)[0]: s must be exactly two bytes *)
unpack_H_ok(s) == Len(s) = 2
unpack_H_BigEndian(s) == 256 * s[1] + s[2]
unpack_H(s) == s[1] + 256 * s[2]

(* data[i:j] with 0-based Python bounds, clipped to the string *)
Slice(s, i, j) ==
    LET hi == IF j < Len(s) THEN j ELSE Len(s)
    IN  IF i >= hi THEN <<>> ELSE SubSeq(s, i + 1, hi)

(* ~arg & 0xff on Python integers *)
NotAnd0xff(arg) == (-arg - 1) % 256

(* str.lower() *)
LowerChar(c) ==
    LET up == <<"A","B","C","D","E","F","G","H","I","J","K","L","M",
                "N","O","P","Q","R","S","T","U","V","W","X","Y","Z">>
        lo == <<"a","b","c","d","e","f","g","h","i","j","k","l","m",
                "n","o","p","q","r","s","t","u","v","w","x","y","z">>
    IN  IF \E i \in 1..26 : up[i] = c
        THEN lo[CHOOSE i \in 1..26 : up[i] = c]
        ELSE c

RECURSIVE lower(_)
lower(s) == IF s = <<>> THEN "" ELSE LowerChar(Head(s)) \o lower(Tail(s))

(* ------------------------------------------------------------------ *)
(* The regular expressions of get_token                                 *)
(* ------------------------------------------------------------------ *)
(* (d|r|a)8 at position i *)
Imm8At(operand, i) ==
    /\ i >= 1 /\ i + 1 <= Len(operand)
    /\ operand[i] \in {"d", "r", "a"}
    /\ operand[i + 1] = "8"

(* (d|r|a)16 at position i *)
Imm16At(operand, i) ==
    /\ i >= 1 /\ i + 2 <= Len(operand)
    /\ operand[i] \in {"d", "r", "a"}
    /\ operand[i + 1] = "1"
    /\ operand[i + 2] = "6"

(* A|B|C|D|E|F|H|L|(SP)|(PC) at position i *)
RegAt(operand, i) ==
    /\ i >= 1 /\ i <= Len(operand)
    /\ \/ operand[i] \in {"A", "B", "C", "D", "E", "F", "H", "L"}
       \/ /\ i + 1 <= Len(operand)
          /\ operand[i] \in {"S", "P"}
          /\ operand[i] = "S" => operand[i + 1] = "P"
          /\ operand[i] = "P" => operand[i + 1] = "C"

search_imm8(operand) == \E i \in 1..Len(operand) : Imm8At(operand, i)
match_imm8(operand) == Imm8At(operand, 1)
search_imm16(operand) == \E i \in 1..Len(operand) : Imm16At(operand, i)
match_imm16(operand) == Imm16At(operand, 1)
search_reg(operand) == \E i \in 1..Len(operand) : RegAt(operand, i)
match_reg(operand) == RegAt(operand, 1)

(* ------------------------------------------------------------------ *)
(* perform_get_instruction_info                                         *)
(* ------------------------------------------------------------------ *)
Raise(exc) == [status |-> exc]

Branch(type, target) == [type |-> type, target |-> target]

(* i_info.add_branch(BranchType.FunctionReturn): no target is passed *)
BranchNoTarget(type) == [type |-> type]

Info(length, branches) ==
    [status |-> "ok", length |-> length, branches |-> branches]

(* mnemonic 'JR' *)
jr_branches(opcode, addr_, arg) ==
    IF opcode = 40 \/ opcode = 56
    THEN <<Branch("TrueBranch", addr_ + 2 + arg),
           Branch("FalseBranch", addr_ + 2)>>
    ELSE IF opcode = 32 \/ opcode = 48
    THEN <<Branch("TrueBranch", addr_ + 2),
           Branch("FalseBranch", addr_ - NotAnd0xff(arg) + 1)>>
    ELSE <<Branch("UnconditionalBranch", addr_ - NotAnd0xff(arg) + 1)>>

(* mnemonic 'JP', opcode other than 0xe9 *)
jp_branches(opcode, addr_, arg) ==
    IF opcode = 202 \/ opcode = 218
    THEN <<Branch("TrueBranch", arg), Branch("FalseBranch", addr_ + 3)>>
    ELSE IF opcode = 192 \/ opcode = 208
    THEN <<Branch("TrueBranch", addr_ + 3), Branch("FalseBranch", arg)>>
    ELSE <<Branch("UnconditionalBranch", arg)>>

(* the body after the table lookup succeeded *)
info_of_entry(op_info, opcode, data_, addr_) ==
    IF op_info.mnemonic = <<"J","R">>
    THEN IF unpack_B_ok(Slice(data_, 1, 2))
         THEN Info(op_info.length,
                   jr_branches(opcode, addr_, unpack_B(Slice(data_, 1, 2))))
         ELSE Raise("struct.error")
    ELSE IF op_info.mnemonic = <<"J","P">>
    THEN IF opcode = 233
         THEN Info(op_info.length, <<Branch("UnconditionalBranch", 57005)>>)
         ELSE IF unpack_H_ok(Slice(data_, 1, 3))
              THEN Info(op_info.length,
                        jp_branches(opcode, addr_, unpack_H(Slice(data_, 1, 3))))
              ELSE Raise("struct.error")
    ELSE IF op_info.mnemonic = <<"R","E","T">>
    THEN Info(op_info.length, <<BranchNoTarget("FunctionReturn")>>)
    ELSE IF op_info.mnemonic = <<"C","A","L","L">>
    THEN IF unpack_H_ok(Slice(data_, 1, 3))
         THEN Info(op_info.length,
                   <<Branch("CallDestination", unpack_H(Slice(data_, 1, 3)))>>)
         ELSE Raise("struct.error")
    ELSE Info(op_info.length, <<>>)

get_instruction_info_LengthOneOnKeyError(data_, addr_) ==
    IF Len(data_) = 0
    THEN Raise("IndexError")
    ELSE IF FormatKey(data_[1]) \notin DOMAIN opcodes
         THEN Info(1, <<>>)
         ELSE info_of_entry(opcodes[FormatKey(data_[1])], data_[1], data_, addr_)

get_instruction_info(data_, addr_) ==
    IF Len(data_) = 0
    THEN Raise("IndexError")
    ELSE LET opcode == unpack_B(<<data_[1]>>)
         IN  IF FormatKey(opcode) \notin DOMAIN opcodes
             THEN [status |-> "None"]
             ELSE info_of_entry(opcodes[FormatKey(opcode)], opcode, data_, addr_)

(* ------------------------------------------------------------------ *)
(* get_token and perform_get_instruction_text                           *)
(* ------------------------------------------------------------------ *)
Token(type, text) == [type |-> type, text |-> text]

TokenV(type, text, value) == [type |-> type, text |-> text, value |-> value]

Got(token) == [status |-> "ok", token |-> token]

get_token_TwoDigitsBoth(operand, data_) ==
    IF search_imm8(operand)
    THEN IF Len(data_) < 2
         THEN Raise("IndexError")
         ELSE IF match_imm8(operand)
              THEN Got(TokenV("IntegerToken", Format2x(data_[2]), data_[2]))
              ELSE Got(TokenV("PossibleAddressToken", Format2x(data_[2]), data_[2]))
    ELSE IF search_imm16(operand)
    THEN IF ~unpack_H_ok(Slice(data_, 1, 3))
         THEN Raise("struct.error")
         ELSE Got(TokenV(IF match_imm16(operand) THEN "IntegerToken"
                                                 ELSE "PossibleAddressToken",
                         Format4x(unpack_H(Slice(data_, 1, 3))),
                         unpack_H(Slice(data_, 1, 3))))
    ELSE Got(Token("RegisterToken", lower(operand)))

get_token(operand, data_) ==
    IF search_imm8(operand)
    THEN IF Len(data_) < 2
         THEN Raise("IndexError")
         ELSE LET value == unpack_B(<<data_[2]>>)
              IN  IF match_imm8(operand)
                  THEN Got(TokenV("IntegerToken", Format2x(value), value))
                  ELSE Got(TokenV("PossibleAddressToken", Format4x(value), value))
    ELSE IF search_imm16(operand)
    THEN IF ~unpack_H_ok(Slice(data_, 1, 3))
         THEN Raise("struct.error")
         ELSE LET value == unpack_H(Slice(data_, 1, 3))
              IN  IF match_imm16(operand)
                  THEN Got(TokenV("IntegerToken", Format4x(value), value))
                  ELSE Got(TokenV("PossibleAddressToken", Format4x(value), value))
    ELSE IF search_reg(operand)
    THEN IF match_reg(operand)
         THEN Got(Token("RegisterToken", lower(operand)))
         ELSE Got(Token("RegisterToken", lower(operand)))
    ELSE Got(Token("RegisterToken", lower(operand)))

Text(tokens, length) ==
    [status |-> "ok", tokens |-> tokens, length |-> length]

text_of_entry_SameSeparator(op_info, data_) ==
    LET t0 == <<Token("InstructionToken", lower(op_info.mnemonic))>>
        sep == Token("OperandSeparatorToken", "    ")
    IN  IF "operand1" \notin DOMAIN op_info
        THEN Text(t0, op_info.length)
        ELSE LET g1 == get_token(op_info.operand1, data_)
             IN  IF g1.status # "ok" THEN Raise(g1.status)
                 ELSE IF "operand2" \notin DOMAIN op_info
                 THEN Text(t0 \o <<sep, g1.token>>, op_info.length)
                 ELSE LET g2 == get_token(op_info.operand2, data_)
                      IN  IF g2.status # "ok" THEN Raise(g2.status)
                          ELSE Text(t0 \o <<sep, g1.token, sep, g2.token>>,
                                    op_info.length)

(* the body after the table lookup succeeded *)
text_of_entry(op_info, data_) ==
    LET t0 == <<Token("InstructionToken", lower(op_info.mnemonic))>>
    IN  IF "operand1" \notin DOMAIN op_info
        THEN Text(t0, op_info.length)
        ELSE LET g1 == get_token(op_info.operand1, data_)
                 t1 == t0 \o <<Token("OperandSeparatorToken", "    "), g1.token>>
             IN  IF g1.status # "ok" THEN Raise(g1.status)
                 ELSE IF "operand2" \notin DOMAIN op_info
                 THEN Text(t1, op_info.length)
                 ELSE LET g2 == get_token(op_info.operand2, data_)
                          t2 == t1 \o <<Token("OperandSeparatorToken", ", "),
                                        g2.token>>
                      IN  IF g2.status # "ok" THEN Raise(g2.status)
                          ELSE Text(t2, op_info.length)

get_instruction_text(data_, addr_) ==
    IF Len(data_) = 0
    THEN Raise("IndexError")
    ELSE LET opcode == unpack_B(<<data_[1]>>)
         IN  IF FormatKey(opcode) \notin DOMAIN opcodes
             THEN [status |-> "None"]
             ELSE text_of_entry(opcodes[FormatKey(opcode)], data_)

(* ------------------------------------------------------------------ *)
(* The state machine                                                    *)
(* ------------------------------------------------------------------ *)
(* The host has a byte window and an address in hand; no call made yet. *)
Init ==
    /\ call = "none"
    /\ data \in Windows
    /\ addr \in Addrs
    /\ ret = [status |-> "none"]

perform_get_instruction_info ==
    /\ call' = "perform_get_instruction_info"
    /\ ret' = get_instruction_info(data, addr)
    /\ UNCHANGED <<data, addr>>

perform_get_instruction_text ==
    /\ call' = "perform_get_instruction_text"
    /\ ret' = get_instruction_text(data, addr)
    /\ UNCHANGED <<data, addr>>

Next == perform_get_instruction_info \/ perform_get_instruction_text

Spec == Init /\ [][Next]_vars

(* ------------------------------------------------------------------ *)
(* Properties                                                           *)
(* ------------------------------------------------------------------ *)
InfoCalled == call = "perform_get_instruction_info"

TextCalled == call = "perform_get_instruction_text"

HasEntry(opcode) == FormatKey(opcode) \in DOMAIN opcodes

Entry(opcode) == opcodes[FormatKey(opcode)]

sign_extend_8(arg) == IF arg < 128 THEN arg ELSE arg - 256

HasTarget(b) == "target" \in DOMAIN b

(* C1: the unconditional relative jump (JR, opcode outside 0x20, 0x28,    *)
(* 0x30, 0x38) gives the single Unconditional edge to                     *)
(* address + 2 + sign_extend_8(arg), for every address and every arg.     *)
C1_JrUnconditionalTarget ==
    (/\ InfoCalled
     /\ Len(data) >= 2
     /\ HasEntry(data[1])
     /\ Entry(data[1]).mnemonic = <<"J","R">>
     /\ data[1] \notin {32, 40, 48, 56})
    => /\ ret.status = "ok"
       /\ ret.branches = <<[type |-> "UnconditionalBranch",
                            target |-> addr + 2 + sign_extend_8(data[2])]>>

(* C2: decoding an opcode that has a table entry on a window shorter than *)
(* the entry's length ends in the TruncatedInstruction failure: no        *)
(* uncaught error, no length, no edges.                                   *)
C2_TruncatedInstruction ==
    (/\ InfoCalled
     /\ Len(data) >= 1
     /\ HasEntry(data[1])
     /\ Len(data) < Entry(data[1]).length)
    => /\ ret.status = "TruncatedInstruction"
       /\ DOMAIN ret = {"status"}

(* C3: the register-indirect jump JP (HL), opcode 0xe9, gives exactly one *)
(* edge, of kind IndirectUnresolved, that carries no numeric target.      *)
C3_IndirectJumpUnresolved ==
    (InfoCalled /\ Len(data) >= 1 /\ data[1] = 233)
    => /\ ret.status = "ok"
       /\ Len(ret.branches) = 1
       /\ ret.branches[1].type = "IndirectBranch"
       /\ ~HasTarget(ret.branches[1])

(* C4: for an opcode byte without a table entry, decode and rendering     *)
(* both return the unknown-opcode outcome (None): no length, no edges, no *)
(* tokens, whatever the other bytes and the address are.                  *)
C4_UnknownOpcode ==
    (/\ InfoCalled \/ TextCalled
     /\ Len(data) >= 1
     /\ ~HasEntry(data[1]))
    => /\ ret.status = "None"
       /\ DOMAIN ret = {"status"}

C4_Witness ==
    /\ TextCalled
    /\ data = <<211, 52, 18>>
    /\ addr = 512
    /\ ret.status = "None"

(* C5: the opcodes selecting the second conditional pair of the absolute  *)
(* jump, 0xc0 and 0xd0, are JP instructions, and decoding them yields     *)
(* exactly TrueBranch(address + 3), FalseBranch(arg16).                   *)
C5_SecondJpPair ==
    (InfoCalled /\ Len(data) = 3 /\ data[1] \in {192, 208})
    => /\ HasEntry(data[1])
       /\ Entry(data[1]).mnemonic = <<"J","P">>
       /\ ret.status = "ok"
       /\ ret.branches = <<[type |-> "TrueBranch", target |-> addr + 3],
                           [type |-> "FalseBranch",
                            target |-> data[2] + 256 * data[3]]>>

(* C6: every CALL, conditional or not, at every address and for every     *)
(* operand bytes b1, b2 decodes to length 3 and the single edge           *)
(* Call(b1 + 256 * b2), whatever the address.                             *)
C6_CallEdge ==
    (/\ InfoCalled
     /\ Len(data) = 3
     /\ HasEntry(data[1])
     /\ Entry(data[1]).mnemonic = <<"C","A","L","L">>)
    => /\ ret.status = "ok"
       /\ ret.length = 3
       /\ ret.branches = <<[type |-> "CallDestination",
                            target |-> data[2] + 256 * data[3]]>>

C6_Witness ==
    /\ InfoCalled
    /\ data = <<205, 52, 18>>
    /\ addr = 65535
    /\ ret.branches = <<[type |-> "CallDestination", target |-> 4660]>>

NumOperands(op_info) ==
    IF "operand2" \in DOMAIN op_info THEN 2
    ELSE IF "operand1" \in DOMAIN op_info THEN 1
    ELSE 0

OperandTokenTypes == {"IntegerToken", "PossibleAddressToken", "RegisterToken"}

MnemonicText ==
    (<<"A","D","C">> :> "adc") @@
    (<<"A","D","D">> :> "add") @@
    (<<"A","N","D">> :> "and") @@
    (<<"C","A","L","L">> :> "call") @@
    (<<"C","C","F">> :> "ccf") @@
    (<<"C","P","L">> :> "cpl") @@
    (<<"C","P">> :> "cp") @@
    (<<"D","A","A">> :> "daa") @@
    (<<"D","E","C">> :> "dec") @@
    (<<"D","I">> :> "di") @@
    (<<"E","I">> :> "ei") @@
    (<<"H","A","L","T">> :> "halt") @@
    (<<"I","N","C">> :> "inc") @@
    (<<"J","P">> :> "jp") @@
    (<<"J","R">> :> "jr") @@
    (<<"L","D","H">> :> "ldh") @@
    (<<"L","D">> :> "ld") @@
    (<<"N","O","P">> :> "nop") @@
    (<<"O","R">> :> "or") @@
    (<<"P","O","P">> :> "pop") @@
    (<<"P","U","S","H">> :> "push") @@
    (<<"R","E","T","I">> :> "reti") @@
    (<<"R","E","T">> :> "ret") @@
    (<<"R","L","A">> :> "rla") @@
    (<<"R","L","C","A">> :> "rlca") @@
    (<<"R","R","A">> :> "rra") @@
    (<<"R","R","C","A">> :> "rrca") @@
    (<<"R","S","T">> :> "rst") @@
    (<<"S","B","C">> :> "sbc") @@
    (<<"S","C","F">> :> "scf") @@
    (<<"S","T","O","P">> :> "stop") @@
    (<<"S","U","B">> :> "sub") @@
    (<<"X","O","R">> :> "xor")

(* C7: rendering an opcode whose entry has k operand descriptors gives    *)
(* 1 + 2k tokens: the lower-cased mnemonic, then four spaces and the      *)
(* first operand, then ', ' and the second operand; the length returned   *)
(* with them is the entry's length, the one decode reports.               *)
C7_TokenLayout ==
    (/\ TextCalled
     /\ Len(data) >= 1
     /\ HasEntry(data[1])
     /\ Len(data) >= Entry(data[1]).length)
    => LET e == Entry(data[1])
           k == NumOperands(e)
           t == ret.tokens
       IN  /\ ret.status = "ok"
           /\ Len(t) = 1 + 2 * k
           /\ t[1] = [type |-> "InstructionToken", text |-> MnemonicText[e.mnemonic]]
           /\ k >= 1 => /\ t[2] = [type |-> "OperandSeparatorToken", text |-> "    "]
                        /\ t[3].type \in OperandTokenTypes
           /\ k = 2 => /\ t[4] = [type |-> "OperandSeparatorToken", text |-> ", "]
                       /\ t[5].type \in OperandTokenTypes
           /\ ret.length = e.length
           /\ get_instruction_info(data, addr).status = "ok"
           /\ ret.length = get_instruction_info(data, addr).length

C7_Witness ==
    /\ TextCalled
    /\ data = <<1, 52, 18>>
    /\ Len(ret.tokens) = 5
    /\ ret.tokens[1].text = "ld"
    /\ ret.tokens[3].text = "bc"
    /\ ret.tokens[5].text = "0x1234"
    /\ ret.length = 3

(* the descriptors of the table that contain d8, r8 or a8 *)
Exact8 == {<<"d","8">>, <<"r","8">>, <<"a","8">>}

Other8 == {<<"(","a","8",")">>, <<"S","P","+","r","8">>}

(* the operand token of descriptor number i *)
OperandToken(i) == ret.tokens[2 * i + 1]

Descriptor(op_info, i) == IF i = 1 THEN op_info.operand1 ELSE op_info.operand2

TwoHexDigits(v) == "0x" \o HexChar(v \div 16) \o HexChar(v % 16)

FourHexDigits(v) == "0x00" \o HexChar(v \div 16) \o HexChar(v % 16)

(* C8 as stated: an 8-bit descriptor renders as a token whose value is    *)
(* the raw second byte and whose text is a two-hex-digit literal, the     *)
(* kind being Integer for an exact d8/r8/a8 and Possible-address          *)
(* otherwise.                                                             *)
C8_EightBitTokenTwoDigits ==
    (TextCalled /\ ret.status = "ok")
    => \A i \in 1..NumOperands(Entry(data[1])) :
           LET d == Descriptor(Entry(data[1]), i)
               t == OperandToken(i)
           IN  d \in Exact8 \cup Other8
               => /\ t.value = data[2]
                  /\ t.text = TwoHexDigits(data[2])
                  /\ t.type = IF d \in Exact8 THEN "IntegerToken"
                                              ELSE "PossibleAddressToken"

(* C8 amended: the value is the raw second byte in both cases; an exact   *)
(* d8/r8/a8 gives an Integer token with a two-hex-digit text, any other   *)
(* 8-bit descriptor a Possible-address token with a four-hex-digit text.  *)
C8_EightBitToken ==
    (TextCalled /\ ret.status = "ok")
    => \A i \in 1..NumOperands(Entry(data[1])) :
           LET d == Descriptor(Entry(data[1]), i)
               t == OperandToken(i)
           IN  d \in Exact8 \cup Other8
               => /\ t.value = data[2]
                  /\ d \in Exact8 => /\ t.type = "IntegerToken"
                                     /\ t.text = TwoHexDigits(data[2])
                  /\ d \in Other8 => /\ t.type = "PossibleAddressToken"
                                     /\ t.text = FourHexDigits(data[2])

C8_Witness ==
    /\ TextCalled
    /\ data = <<224, 254>>
    /\ ret.status = "ok"
    /\ ret.tokens[3] = [type |-> "PossibleAddressToken", text |-> "0x00fe",
                        value |-> 254]

(* C9: every edge target is a 16-bit address, 0 <= t <= 65535.            *)
C9_TargetsSixteenBit ==
    (InfoCalled /\ ret.status = "ok")
    => \A i \in 1..Len(ret.branches) :
           HasTarget(ret.branches[i])
           => ret.branches[i].target \in 0..65535

(* C10: a conditional transfer is exactly TrueBranch then FalseBranch,    *)
(* the FalseBranch being the fallthrough address + length; anything else  *)
(* is no edge or one edge of kind Unconditional, Call, Return or          *)
(* IndirectUnresolved.                                                    *)
C10_ConditionalPair ==
    (InfoCalled /\ ret.status = "ok")
    => LET b == ret.branches
       IN  IF \E i \in 1..Len(b) : b[i].type \in {"TrueBranch", "FalseBranch"}
           THEN /\ Len(b) = 2
                /\ b[1].type = "TrueBranch"
                /\ b[2].type = "FalseBranch"
                /\ b[2].target = addr + ret.length
           ELSE /\ Len(b) <= 1
                /\ Len(b) = 1 => b[1].type \in {"UnconditionalBranch",
                                                "CallDestination",
                                                "FunctionReturn",
                                                "IndirectBranch"}
====
